---- MODULE Spec2Model ----
(***************************************************************************)
(* Discovery-and-synchronisation pipeline of google_drive_file_collector:  *)
(*   drive_flie_list.py     get_files_in_date_range and its helpers        *)
(*   google_drive_reader.py GoogleDriveReader.read_multiple_files          *)
(*   collect_all.py         the pipeline run and the persisted collection  *)
(* The remote store and the persisted store are modelled by what the code  *)
(* sends to them and reads back.                                           *)
(***************************************************************************)
EXTENDS Integers, Sequences, FiniteSets, TLC

(* ------------------------------ bounds -------------------------------- *)
\* sub-folders below the root folder F0
NumSub == 1
\* files of the remote store
NumFiles == 2
\* items the remote store puts on one page of a list response
PageSize == 1
\* latest calendar day a request or a timestamp may name
MaxDay == 2
\* most requests one call of get_files_in_date_range is followed for
MaxCalls == 12

(* --------------------------- program constants ------------------------ *)
\* folder_id=None: no folder given
NoFolder == << "None", 0 >>
\* page_token = None: the first page is asked for, or no page follows
NoToken == 0
\* a string not set yet
Unset == "None"
\* strftime('%Y-%m-%dT00:00:00') and strftime('%Y-%m-%dT23:59:59')
DayLen == 86400
FolderMime == "application/vnd.google-apps.folder"
DocMime == "application/vnd.google-apps.document"
SheetMime == "application/vnd.google-apps.spreadsheet"
PdfMime == "application/pdf"

VARIABLES
    \* remote store
    parentOf,        \* sub-folder index -> index of its parent folder
    files,           \* file index -> [name, mimeType, parents, createdTime, modifiedTime]
    \* get_files_in_date_range: arguments
    folder_id, recursive, exclude_keywords, search_type, start_date, end_date,
    \* get_files_in_date_range: locals and position
    pc, start_date_str, end_date_str, time_field,
    stack,           \* get_all_subfolders: the recursion's frames, top last
    folders_to_search, idx, page_token, results, all_results,
    returned,        \* the returned list, once pc = "done"
    calls,           \* the remote calls issued so far, in order
    failed,          \* the remote calls that failed: indices into calls
    \* GoogleDriveReader.read_multiple_files
    file_ids,        \* the argument
    fpc,             \* "reading" inside the for loop, "done" once it returned
    fetch_results,   \* results
    fetch_events,    \* per processed id: what the remote store answered
    \* collect_all.py
    recordings,      \* client.test_database.recordings: documents in insertion order
    runs,            \* operations applied to the collection so far
    lookups,         \* folder ids looked up by the last build of an idmap
    shared_recordings, \* client.shared.recordings, the collection the labels go to
    last_update,     \* arguments of update_created_by_in_mongo, right after it ran
    attribution,     \* add_created_by_to_files: its arguments and how the call ended
    \* get_files_in_date_range: the remaining arguments, and what they produce
    debug, file_types, filename_keywords,
    printed,         \* the lines printed under  if debug
    query            \* the query string built for a folder: its ' and '-joined parts

dvars == << parentOf, files, folder_id, recursive, exclude_keywords, search_type,
            start_date, end_date, pc, start_date_str, end_date_str, time_field,
            stack, folders_to_search, idx, page_token, results, all_results,
            returned, calls, failed >>

fvars == << file_ids, fpc, fetch_results, fetch_events >>
svars == << recordings, runs, lookups, shared_recordings, last_update, attribution >>
qvars == << debug, file_types, filename_keywords, printed, query >>
vars == << dvars, fvars, svars, qvars >>

(* ------------------------------ identifiers --------------------------- *)
FolderId(i) == << "F", i >>
FileId(i) == << "X", i >>
Folders == { FolderId(i) : i \in {0} \cup DOMAIN parentOf }
FileIds == { FileId(i) : i \in DOMAIN files }
RootFolder == FolderId(0)

(* ------------------------------- strings ------------------------------ *)
\* str.lower() on the characters the model uses
LowerChar(c) ==
    CASE c = "D" -> "d"
      [] c = "R" -> "r"
      [] c = "E" -> "e"
      [] OTHER -> c
Lower(s) == [ i \in 1..Len(s) |-> LowerChar(s[i]) ]
\* Python's  sub in s  on strings
Contains(sub, s) ==
    \E off \in 0..(Len(s) - Len(sub)) : SubSeq(s, off + 1, off + Len(sub)) = sub

(* ------------------------------ sequences ----------------------------- *)
RECURSIVE SortedSeq(_)
SortedSeq(S) ==
    IF S = {} THEN << >>
    ELSE LET m == CHOOSE x \in S : \A y \in S : x <= y
         IN << m >> \o SortedSeq(S \ {m})
Range(s) == { s[i] : i \in 1..Len(s) }
Min(a, b) == IF a <= b THEN a ELSE b
\* the lists of at most n entries of S
ListsOver(S, n) == UNION { [ 1..k -> S ] : k \in 0..n }

(* --------------------------- time and window -------------------------- *)
\* a datetime is [day, sec]; a timestamp string compares as day*DayLen+sec
Stamp(d) == d.day * DayLen + d.sec
\* start_date.strftime('%Y-%m-%dT00:00:00')
StartOfDayStr(d) == [ day |-> d.day, sec |-> 0 ]
\* end_date.strftime('%Y-%m-%dT23:59:59')
EndOfDayStrExclusive(d) == [ day |-> d.day + 1, sec |-> 0 ]
EndOfDayStr(d) == [ day |-> d.day, sec |-> DayLen - 1 ]
\* time_field = 'modifiedTime' if search_type == 'modified' else 'createdTime'
TimeField(st) == IF st = "modified" THEN "modifiedTime" ELSE "createdTime"
\* the remote store's reading of
\*   f"{time_field} >= '{start_date_str}'" and f"{time_field} <= '{end_date_str}'"
InWindow(f, field, lo, hi) == Stamp(f[field]) >= Stamp(lo) /\ Stamp(f[field]) <= Stamp(hi)

(* ----------------------------- remote store --------------------------- *)
\* what files().list projects of a file: files(id, name, ...)
FileRecord(i) ==
    [ id |-> FileId(i), name |-> files[i].name, parents |-> files[i].parents,
      createdTime |-> files[i].createdTime ]
\* the child folders the store holds for  '<fid>' in parents and mimeType=folder
ChildFolders(fid) ==
    IF fid \in Folders
    THEN LET kids == SortedSeq({ i \in DOMAIN parentOf : parentOf[i] = fid[2] })
         IN [ k \in 1..Len(kids) |-> FolderId(kids[k]) ]
    ELSE << >>
\* the files the store holds for a search query: the time window on time_field and,
\* when the query is scoped,  '<fid>' in parents
Matches(scope, field, lo, hi) ==
    LET hit == SortedSeq({ i \in DOMAIN files :
                   /\ InWindow(files[i], field, lo, hi)
                   /\ (scope = NoFolder \/ scope \in Range(files[i].parents)) })
    IN [ k \in 1..Len(hit) |-> FileRecord(hit[k]) ]
SearchMatches(scope) == Matches(scope, time_field, start_date_str, end_date_str)
\* pagination: the page a request with pageToken tok receives, and nextPageToken
PageOf(all, tok) ==
    SubSeq(all, tok * PageSize + 1, Min((tok + 1) * PageSize, Len(all)))
\* a response that never carries a nextPageToken
NextTokenNever(all, tok) == NoToken
NextToken(all, tok) ==
    IF (tok + 1) * PageSize < Len(all) THEN tok + 1 ELSE NoToken
\* a store whose listing shifts between two requests returns the last item of the
\* previous page again at the head of the next one
PageWithOverlap(all, tok, overlap) ==
    IF overlap /\ tok # NoToken
    THEN << all[tok * PageSize] >> \o PageOf(all, tok)
    ELSE PageOf(all, tok)

Call(op, arg, tok) == [ op |-> op, arg |-> arg, token |-> tok ]
\* a search request, and whether its answer began with the item repeated
SearchCall(scope, tok, repeated) ==
    [ op |-> "search", arg |-> scope, token |-> tok, repeated |-> repeated ]

(* ----------------------- filter_by_exclude_keywords ------------------- *)
KeywordHitsNoLowerKeyword(name, keywords) ==
    \E k \in 1..Len(keywords) : Contains(keywords[k], Lower(name))
\* for keyword in exclude_keywords: if keyword.lower() in filename
KeywordHits(name, keywords) ==
    \E k \in 1..Len(keywords) : Contains(Lower(keywords[k]), Lower(name))
RECURSIVE KeepUnexcluded(_, _)
KeepUnexcluded(fs, keywords) ==
    IF fs = << >> THEN << >>
    ELSE IF KeywordHits(Head(fs).name, keywords)
         THEN KeepUnexcluded(Tail(fs), keywords)
         ELSE << Head(fs) >> \o KeepUnexcluded(Tail(fs), keywords)
filter_by_exclude_keywords(fs, keywords) ==
    IF keywords = << >> THEN fs ELSE KeepUnexcluded(fs, keywords)

(* ------------------ get_files_in_date_range: the tail ------------------ *)
RECURSIVE UniqueFrom(_, _)
\* a loop that keeps the last record of an id instead of the first
UniqueFromKeepsLast(fs, seen) ==
    LET keep == SortedSeq({ k \in 1..Len(fs) :
                    /\ fs[k].id \notin seen
                    /\ \A j \in (k + 1)..Len(fs) : fs[j].id # fs[k].id })
    IN [ i \in 1..Len(keep) |-> fs[keep[i]] ]
UniqueFrom(fs, seen) ==
    IF fs = << >> THEN << >>
    ELSE IF Head(fs).id \in seen
         THEN UniqueFrom(Tail(fs), seen)
         ELSE << Head(fs) >> \o UniqueFrom(Tail(fs), seen \cup { Head(fs).id })
\* the loop with seen.add(file['id']) left out: nothing is ever seen
RemoveDuplicatesSeenNeverGrows(fs) == fs
\* seen = set(); for file in all_results: if file['id'] not in seen: ...
RemoveDuplicates(fs) == UniqueFrom(fs, {})

(* --------------------- get_files_in_date_range ------------------------ *)
NewFrame(fid) ==
    [ fid |-> fid, page_token |-> NoToken, pending |-> << >>,
      subfolders |-> << >>, looping |-> TRUE ]

\* lines 267-284: the window strings and the time field
WindowSet ==
    /\ start_date_str' = StartOfDayStr(start_date)
    /\ end_date_str' = EndOfDayStr(end_date)
    /\ time_field' = TimeField(search_type)

\* lines 299-314 with a folder_id: verify_folder_access, then the folder set
VerifyRoot ==
    /\ pc = "start"
    /\ folder_id # NoFolder
    /\ WindowSet
    /\ calls' = Append(calls, Call("get", folder_id, NoToken))
    /\ \/ \* files().get raised: verify_folder_access returns None, the call returns []
          /\ failed' = failed \cup { Len(calls) + 1 }
          /\ returned' = << >>
          /\ pc' = "done"
          /\ UNCHANGED << stack, folders_to_search >>
       \/ \* the object is reachable (a folder, or not: only a warning is printed)
          /\ recursive
          /\ stack' = << NewFrame(folder_id) >>
          /\ pc' = "traverse"
          /\ UNCHANGED << failed, returned, folders_to_search >>
       \/ /\ ~recursive
          /\ folders_to_search' = << folder_id >>
          /\ pc' = "search"
          /\ UNCHANGED << failed, returned, stack >>
    /\ UNCHANGED << parentOf, files, folder_id, recursive, exclude_keywords,
                    search_type, start_date, end_date, idx, page_token, results,
                    all_results >>
    /\ UNCHANGED << fvars, svars, qvars >>

\* lines 299-316 without a folder_id: no verification, no folder set
StartUnscoped ==
    /\ pc = "start"
    /\ folder_id = NoFolder
    /\ WindowSet
    /\ pc' = "search"
    /\ UNCHANGED << parentOf, files, folder_id, recursive, exclude_keywords,
                    search_type, start_date, end_date, stack, folders_to_search,
                    idx, page_token, results, all_results, returned, calls, failed >>
    /\ UNCHANGED << fvars, svars, qvars >>

Top == stack[Len(stack)]
SetTop(f) == [ stack EXCEPT ![Len(stack)] = f ]

\* a failed listing that gives up the whole traversal with nothing
ListFailedAbandonsAll ==
    stack' = << [ NewFrame(stack[1].fid) EXCEPT !.looping = FALSE ] >>
\* lines 126-128: except Exception: print(...); break
ListFailed == stack' = SetTop([ Top EXCEPT !.looping = FALSE ])

\* a loop that asks for another page after every response
MorePagesAlways(tok) == TRUE
\* lines 122-124 and 430-432: if not page_token: break
MorePages(tok) == tok # NoToken

\* get_all_subfolders, lines 104-128: one files().list request of the top frame
TraverseList ==
    /\ pc = "traverse"
    /\ Len(calls) < MaxCalls
    /\ Top.pending = << >>
    /\ Top.looping
    /\ calls' = Append(calls, Call("list_folders", Top.fid, Top.page_token))
    /\ \/ \* the request raised: except ... break
          /\ failed' = failed \cup { Len(calls) + 1 }
          /\ ListFailed
       \/ \* a page of child folders and its nextPageToken
          /\ LET all == ChildFolders(Top.fid)
                 nxt == NextToken(all, Top.page_token)
             IN stack' = SetTop([ Top EXCEPT !.pending = PageOf(all, Top.page_token),
                                             !.page_token = nxt,
                                             !.looping = MorePages(nxt) ])
          /\ UNCHANGED failed
    /\ UNCHANGED << parentOf, files, folder_id, recursive, exclude_keywords,
                    search_type, start_date, end_date, pc, start_date_str,
                    end_date_str, time_field, folders_to_search, idx, page_token,
                    results, all_results, returned >>
    /\ UNCHANGED << fvars, svars, qvars >>

\* lines 117-120: subfolders.append(folder['id']) and the recursive call
TraverseDescend ==
    /\ pc = "traverse"
    /\ Top.pending # << >>
    /\ stack' = Append(SetTop([ Top EXCEPT !.pending = Tail(@),
                                          !.subfolders = Append(@, Head(Top.pending)) ]),
                       NewFrame(Head(Top.pending)))
    /\ UNCHANGED << parentOf, files, folder_id, recursive, exclude_keywords,
                    search_type, start_date, end_date, pc, start_date_str,
                    end_date_str, time_field, folders_to_search, idx, page_token,
                    results, all_results, returned, calls, failed >>
    /\ UNCHANGED << fvars, svars, qvars >>

\* line 130: return subfolders, to the caller's extend or to line 310
TraverseReturn ==
    /\ pc = "traverse"
    /\ Top.pending = << >>
    /\ ~Top.looping
    /\ \/ /\ Len(stack) > 1
          /\ stack' = [ SubSeq(stack, 1, Len(stack) - 1) EXCEPT ![Len(stack) - 1] =
                          [ @ EXCEPT !.subfolders = @ \o Top.subfolders ] ]
          /\ UNCHANGED << pc, folders_to_search >>
       \/ /\ Len(stack) = 1
          /\ folders_to_search' = << folder_id >> \o Top.subfolders
          /\ stack' = << >>
          /\ pc' = "search"
    /\ UNCHANGED << parentOf, files, folder_id, recursive, exclude_keywords,
                    search_type, start_date, end_date, start_date_str,
                    end_date_str, time_field, idx, page_token, results,
                    all_results, returned, calls, failed >>
    /\ UNCHANGED << fvars, svars, qvars >>

\* every query of the loop scoped to the folder the call was given
SearchScopeAlwaysRoot == IF folders_to_search = << >> THEN NoFolder ELSE folder_id
\* line 320, for idx, fid in enumerate(folders_to_search, 1), or the whole store
SearchScope == IF folders_to_search = << >> THEN NoFolder ELSE folders_to_search[idx]

\* execute_search returns: all_results.extend(results), next folder or the tail
SearchFinished(res) ==
    /\ all_results' = all_results \o res
    /\ results' = << >>
    /\ page_token' = NoToken
    /\ IF folders_to_search = << >> \/ idx = Len(folders_to_search)
       THEN pc' = "post" /\ idx' = idx
       ELSE pc' = pc /\ idx' = idx + 1

\* a failed request that ended the whole run with nothing
SearchFailedAborts(res) ==
    /\ returned' = << >>
    /\ pc' = "done"
    /\ UNCHANGED << all_results, results, page_token, idx >>
\* a failed request that throws away the pages fetched before it
SearchFailedLosesPages(res) == SearchFinished(<< >>) /\ UNCHANGED returned
\* lines 433-437: except Exception: print(...); return results
SearchFailed(res) == SearchFinished(res) /\ UNCHANGED returned

\* execute_search(service, query, debug), lines 427-428: the files of a response,
\* kept only when debug is set
ResponseFilesOnlyInDebug(dbg, page) == IF dbg THEN page ELSE << >>
\* execute_search(service, query, debug), lines 427-428:
\* files = response.get('files', []); results.extend(files)
ResponseFiles(dbg, page) == page
\* lines 343-345 and 376-377: if debug: print(f"Query: {query}"), before the first
\* request of a query
QueryTrace(dbg, tok) == IF dbg /\ tok = NoToken THEN << "query" >> ELSE << >>
\* lines 350-351: if debug and results: print(f"  -> Found {len(results)} files"),
\* in the loop over the folders only
FoundTrace(dbg, res) ==
    IF dbg /\ res # << >> /\ folders_to_search # << >> THEN << "found" >> ELSE << >>
\* lines 390-395: if debug and excluded_count > 0: print(...)
ExcludedTrace(dbg, before, after) ==
    IF dbg /\ exclude_keywords # << >> /\ Len(before) - Len(after) > 0
    THEN << "excluded" >> ELSE << >>

\* execute_search, lines 414-435: one files().list request of the current query
SearchPage ==
    /\ pc = "search"
    /\ Len(calls) < MaxCalls
    /\ \/ \* the request raised: the pages fetched so far are returned
          /\ calls' = Append(calls, SearchCall(SearchScope, page_token, FALSE))
          /\ failed' = failed \cup { Len(calls) + 1 }
          /\ SearchFailed(results)
          /\ printed' = printed \o QueryTrace(debug, page_token)
                                \o FoundTrace(debug, results)
       \/ \E overlap \in BOOLEAN :
            LET all == SearchMatches(SearchScope)
                got == results \o ResponseFiles(debug,
                                    PageWithOverlap(all, page_token, overlap))
                nxt == NextToken(all, page_token)
            IN /\ (overlap => page_token # NoToken)
               /\ calls' = Append(calls, SearchCall(SearchScope, page_token, overlap))
               /\ UNCHANGED << failed, returned >>
               /\ IF MorePages(nxt)
                  THEN /\ results' = got
                       /\ page_token' = nxt
                       /\ printed' = printed \o QueryTrace(debug, page_token)
                       /\ UNCHANGED << all_results, idx, pc >>
                  ELSE /\ SearchFinished(got)
                       /\ printed' = printed \o QueryTrace(debug, page_token)
                                             \o FoundTrace(debug, got)
    /\ UNCHANGED << parentOf, files, folder_id, recursive, exclude_keywords,
                    search_type, start_date, end_date, start_date_str,
                    end_date_str, time_field, stack, folders_to_search >>
    /\ UNCHANGED << fvars, svars, debug, file_types, filename_keywords, query >>

\* lines 381-397: remove duplicates, filter by exclude keywords, return
PostProcess ==
    /\ pc = "post"
    /\ returned' = filter_by_exclude_keywords(RemoveDuplicates(all_results),
                                              exclude_keywords)
    /\ printed' = printed \o ExcludedTrace(debug, RemoveDuplicates(all_results),
                                            returned')
    /\ pc' = "done"
    /\ UNCHANGED << parentOf, files, folder_id, recursive, exclude_keywords,
                    search_type, start_date, end_date, start_date_str,
                    end_date_str, time_field, stack, folders_to_search, idx,
                    page_token, results, all_results, calls, failed >>
    /\ UNCHANGED << fvars, svars, debug, file_types, filename_keywords, query >>

(* ------------------------- the discovery run -------------------------- *)
\* names of the store's files: every other file is a draft
NameOf(i) == IF i % 2 = 1 THEN << "R", "e" >> ELSE << "D", "r" >>
KeywordLists == { << >>, << << "d", "r" >> >>, << << "x" >>, << "R", "E" >> >> }
Day(d) == [ day |-> d, sec |-> 0 ]
\* a file lies in one folder, or (a legacy file) in two: its 'parents' list
ParentLists(n) ==
    { [ k \in 1..Len(SortedSeq(ps)) |-> FolderId(SortedSeq(ps)[k]) ] :
        ps \in { q \in SUBSET (0..n) : Cardinality(q) \in 1..2 } }
\* Python's None
PyNone == << "None" >>
\* no label map: the empty dictionary
EmptyMap == [ fid \in {} |-> PyNone ]
\* update_created_by_in_mongo has not been called
NoUpdate == [ distinct_ids |-> << >>, idmap |-> EmptyMap, before |-> << >> ]
\* add_created_by_to_files has not been called
NoAttribution ==
    [ collected_files |-> << >>, idmap |-> EmptyMap, called |-> FALSE, raised |-> FALSE ]
\* debug=False, file_types=None, filename_keywords=None; nothing printed or built
QueryUnused ==
    /\ debug = FALSE
    /\ file_types = << >>
    /\ filename_keywords = << >>
    /\ printed = << >>
    /\ query = << >>
\* read_multiple_files is not running
FetchUnused ==
    /\ file_ids = << >>
    /\ fpc = "done"
    /\ fetch_results = << >>
    /\ fetch_events = << >>
\* the pipeline of collect_all.py is not running
StoreUnused ==
    /\ recordings = << >>
    /\ runs = 0
    /\ lookups = << >>
    /\ shared_recordings = << >>
    /\ last_update = NoUpdate
    /\ attribution = NoAttribution

DiscoverInit ==
    /\ parentOf \in { p \in [ 1..NumSub -> 0..NumSub ] : \A i \in 1..NumSub : p[i] < i }
    /\ \E ps \in [ 1..NumFiles -> ParentLists(NumSub) ], ts \in [ 1..NumFiles -> { Day(1), Day(2) } ] :
         files = [ i \in 1..NumFiles |->
                     [ name |-> NameOf(i), mimeType |-> DocMime, parents |-> ps[i],
                       createdTime |-> ts[i], modifiedTime |-> ts[i] ] ]
    /\ folder_id \in { NoFolder, RootFolder, FileId(1) }
    /\ recursive \in BOOLEAN
    /\ exclude_keywords \in KeywordLists
    /\ search_type = "created"
    /\ start_date = Day(1)
    /\ end_date = Day(1)
    /\ pc = "start"
    /\ start_date_str = Day(0)
    /\ end_date_str = Day(0)
    /\ time_field = Unset
    /\ stack = << >>
    /\ folders_to_search = << >>
    /\ idx = 1
    /\ page_token = NoToken
    /\ results = << >>
    /\ all_results = << >>
    /\ returned = << >>
    /\ calls = << >>
    /\ failed = {}
    /\ FetchUnused
    /\ StoreUnused
    /\ QueryUnused

DiscoverNext ==
    \/ VerifyRoot
    \/ StartUnscoped
    \/ TraverseList
    \/ TraverseDescend
    \/ TraverseReturn
    \/ SearchPage
    \/ PostProcess

SpecDiscover == DiscoverInit /\ [][DiscoverNext]_vars

(* ---------------------- properties of the discovery ------------------- *)
Ids(fs) == { fs[i].id : i \in 1..Len(fs) }
Occurrences(id, fs) == Cardinality({ i \in 1..Len(fs) : fs[i].id = id })
\* upper and lower case of one letter
CasePairs == { << "d", "D" >>, << "r", "R" >>, << "e", "E" >> }
SameLetter(c, d) == c = d \/ << c, d >> \in CasePairs \/ << d, c >> \in CasePairs
\* k is a substring of name when case is ignored
OccursIgnoringCase(k, name) ==
    \E off \in 0..(Len(name) - Len(k)) :
        \A j \in 1..Len(k) : SameLetter(k[j], name[off + j])
NamesExcludedKeyword(name) ==
    \E k \in 1..Len(exclude_keywords) : OccursIgnoringCase(exclude_keywords[k], name)
RootLookupFailed == folder_id # NoFolder /\ 1 \in failed
Returned == pc = "done"

\* C1 as stated: the returned list holds every identifier of the merged results
\* exactly once.
C1_EveryMergedIdExactlyOnce ==
    Returned => \A id \in Ids(all_results) : Occurrences(id, returned) = 1
\* C1 amended: no two returned records share an id; an identifier of the merged
\* results appears exactly once when its name holds no excluded keyword, and not
\* at all when it does.
C1_NoTwoRecordsShareAnId ==
    Returned =>
        /\ \A i, j \in 1..Len(returned) : returned[i].id = returned[j].id => i = j
        /\ \A k \in 1..Len(all_results) :
              Occurrences(all_results[k].id, returned) =
                  IF NamesExcludedKeyword(all_results[k].name) THEN 0 ELSE 1
\* the same record came from the queries of two folders and again from one query,
\* and is returned
C1_Witness ==
    /\ Returned
    /\ \E i, j, k \in 1..Len(all_results) :
          /\ i < j /\ j < k
          /\ all_results[i].id = all_results[j].id
          /\ all_results[j].id = all_results[k].id
          /\ all_results[i].id \in Ids(returned)
    /\ \E m, n \in 1..Len(calls) :
          /\ calls[m].op = "search" /\ calls[n].op = "search"
          /\ calls[m].arg # calls[n].arg

\* C2: with a non-empty exclude_keywords no returned name holds a keyword, case
\* ignored, and every record of the merged results whose name holds none is
\* returned.
C2_NoExcludedKeywordInOutput ==
    (Returned /\ exclude_keywords # << >>) =>
        /\ \A i \in 1..Len(returned) : ~NamesExcludedKeyword(returned[i].name)
        /\ \A k \in 1..Len(all_results) :
              ~NamesExcludedKeyword(all_results[k].name)
                  => all_results[k].id \in Ids(returned)
\* a keyword that differs from the name in case dropped one record and another
\* record was kept
C2_Witness ==
    /\ Returned
    /\ \E k \in 1..Len(exclude_keywords), i \in 1..Len(all_results) :
          /\ OccursIgnoringCase(exclude_keywords[k], all_results[i].name)
          /\ ~Contains(exclude_keywords[k], all_results[i].name)
          /\ all_results[i].id \notin Ids(returned)
    /\ returned # << >>

\* C9 as stated: a root that is reachable but is not a folder fails the call: no
\* folder listing, no search, no records.
C9_NonFolderRootFailsTheCall ==
    (Returned /\ folder_id \in FileIds /\ ~RootLookupFailed) =>
        /\ \A n \in 1..Len(calls) : calls[n].op \notin { "list_folders", "search" }
        /\ returned = << >>

\* C10: the run ends with nothing and without a listing or a search when the
\* lookup of the root fails; otherwise no failed listing or search ends it: every
\* folder of the folder set is searched, and every record of a page that was
\* fetched is returned unless its name holds an excluded keyword.
C10_OnlyRootFailureAborts ==
    Returned =>
        IF RootLookupFailed
        THEN returned = << >> /\ Len(calls) = 1
        ELSE /\ \A f \in Range(folders_to_search) :
                   \E n \in 1..Len(calls) : calls[n].op = "search" /\ calls[n].arg = f
             /\ \A n \in 1..Len(calls) :
                   (calls[n].op = "search" /\ n \notin failed) =>
                       \A r \in Range(PageOf(SearchMatches(calls[n].arg), calls[n].token)) :
                           NamesExcludedKeyword(r.name) \/ r.id \in Ids(returned)
\* the listing of a descendant folder failed, the search of another one failed,
\* and records of the remaining folder are returned
C10_Witness ==
    /\ Returned
    /\ ~RootLookupFailed
    /\ \E m, n \in failed : calls[m].op = "list_folders" /\ calls[n].op = "search"
    /\ returned # << >>
\* the lookup of the root failed
C10_WitnessRootFailed == Returned /\ RootLookupFailed

(* ----------------------- properties of the search --------------------- *)
IsSearch(n) == calls[n].op = "search"
\* the continuation token the answer to request n carried
TokenAfter(n) == NextToken(SearchMatches(calls[n].arg), calls[n].token)
\* request n was the last one of its execute_search
EndsQuery(n) == n \in failed \/ TokenAfter(n) = NoToken
\* the items the remote store sent in answer to request n
ItemsOf(n) ==
    IF n \in failed THEN << >>
    ELSE PageWithOverlap(SearchMatches(calls[n].arg), calls[n].token, calls[n].repeated)
\* the items of the search requests 1..n, in the order of the requests
RECURSIVE ItemsUpTo(_)
ItemsUpTo(n) ==
    IF n = 0 THEN << >>
    ELSE ItemsUpTo(n - 1) \o (IF IsSearch(n) THEN ItemsOf(n) ELSE << >>)

\* C12: the first request of an execute_search carries no token and every later one
\* the token of the answer before it; the requests end exactly with the first
\* answer without a token or with the first failed request; and what is handed
\* back is the items of the answered pages, in page order: pages 1..k-1 when the
\* request for page k fails.
C12_PagesInOrderUntilNoToken ==
    /\ \A n \in 1..Len(calls) : IsSearch(n) =>
          IF n = 1 \/ ~IsSearch(n - 1) \/ EndsQuery(n - 1)
          THEN calls[n].token = NoToken
          ELSE calls[n].token = TokenAfter(n - 1) /\ calls[n].arg = calls[n - 1].arg
    /\ all_results \o results = ItemsUpTo(Len(calls))
    /\ (Len(calls) > 0 /\ IsSearch(Len(calls))) =>
          IF EndsQuery(Len(calls))
          THEN results = << >> /\ page_token = NoToken
          ELSE pc = "search" /\ page_token = TokenAfter(Len(calls))
                 /\ results # << >>
\* one execute_search fetched two pages and ended on the answer without a token;
\* another lost the request for its second page and handed back the first page
C12_Witness ==
    /\ Returned
    /\ \E n \in 2..Len(calls) :
          /\ IsSearch(n) /\ n \notin failed /\ calls[n].token # NoToken
          /\ EndsQuery(n)
    /\ \E n \in 2..Len(calls) :
          /\ IsSearch(n) /\ n \in failed /\ calls[n].token # NoToken
          /\ ItemsOf(n - 1) # << >>
          /\ Range(ItemsOf(n - 1)) \subseteq Range(all_results)

(* ------------------- the time window of a discovery ------------------- *)
\* the timestamps at the two ends of every day a window can touch
BoundaryStamps ==
    { [ day |-> d, sec |-> x ] : d \in 0..(MaxDay + 1), x \in { 0, DayLen - 1 } }
\* start_date and end_date: a 'YYYY-MM-DD' string (midnight) or a datetime object
Dates == { [ day |-> d, sec |-> x ] : d \in 1..MaxDay, x \in { 0, DayLen - 1 } }

\* one file in the root folder, any window, any search type
WindowInit ==
    /\ parentOf = [ i \in 1..NumSub |-> 0 ]
    /\ \E c \in BoundaryStamps, m \in BoundaryStamps :
         /\ Stamp(c) <= Stamp(m)
         /\ files = [ i \in 1..1 |->
                        [ name |-> NameOf(i), mimeType |-> DocMime,
                          parents |-> << RootFolder >>,
                          createdTime |-> c, modifiedTime |-> m ] ]
    /\ folder_id \in { NoFolder, RootFolder }
    /\ recursive \in BOOLEAN
    /\ (folder_id = NoFolder => ~recursive)
    /\ exclude_keywords = << >>
    /\ search_type \in { "created", "modified" }
    /\ start_date \in Dates
    /\ end_date \in Dates
    /\ pc = "start"
    /\ start_date_str = Day(0)
    /\ end_date_str = Day(0)
    /\ time_field = Unset
    /\ stack = << >>
    /\ folders_to_search = << >>
    /\ idx = 1
    /\ page_token = NoToken
    /\ results = << >>
    /\ all_results = << >>
    /\ returned = << >>
    /\ calls = << >>
    /\ failed = {}
    /\ FetchUnused
    /\ StoreUnused
    /\ QueryUnused

SpecWindow == WindowInit /\ [][DiscoverNext]_vars

\* the timestamp the search type selects, in seconds
SelectedStamp ==
    IF search_type = "created" THEN Stamp(files[1].createdTime)
    ELSE Stamp(files[1].modifiedTime)
\* startDate 00:00:00 and endDate 23:59:59, in seconds
WindowStart == start_date.day * DayLen
WindowEnd == end_date.day * DayLen + (DayLen - 1)
WindowBuilt == pc # "start"
SatisfiesQuery == InWindow(files[1], time_field, start_date_str, end_date_str)
BoundaryRule ==
    /\ (SelectedStamp \in { WindowStart, WindowEnd } => SatisfiesQuery)
    /\ (SelectedStamp \in { WindowStart - 1, WindowEnd + 1 } => ~SatisfiesQuery)

\* C8 as stated: for every window, a timestamp equal to startDate 00:00:00 or to
\* endDate 23:59:59 satisfies the query and one a second outside does not.
C8_BothEndsInclusive == WindowBuilt => BoundaryRule
\* C8 amended: that holds when startDate is not later than endDate; a window whose
\* startDate is later than its endDate is empty. In both cases a run without a
\* failed request returns the file exactly when its timestamp satisfies the query.
C8_BothEndsInclusiveOfOrderedWindow ==
    /\ WindowBuilt =>
          /\ SatisfiesQuery <=> (WindowStart <= SelectedStamp /\ SelectedStamp <= WindowEnd)
          /\ (start_date.day <= end_date.day => BoundaryRule)
          /\ (start_date.day > end_date.day => ~SatisfiesQuery)
    /\ (Returned /\ failed = {}) => (FileId(1) \in Ids(returned) <=> SatisfiesQuery)
\* a file stamped endDate 23:59:59 was returned by a window given as datetime
\* objects that carry a time of day
C8_Witness ==
    /\ Returned
    /\ start_date.sec # 0
    /\ start_date.day < end_date.day
    /\ SelectedStamp = WindowEnd
    /\ FileId(1) \in Ids(returned)

(* ============== GoogleDriveReader.read_multiple_files ================= *)
\* what export_media delivers for a file, decoded
TextOf(id) == << "text", id >>
CsvOf(id) == << "csv", id >>
\* the answers of the remote store to one request: served, refused with an
\* HttpError, or broken by any other exception (transport, credentials, decoding)
Answers == { "ok", "http_error", "exception" }
Raised == [ raised |-> TRUE, value |-> << PyNone, PyNone >> ]
Value(name, content) == [ raised |-> FALSE, value |-> << name, content >> ]
FileIndex(id) == id[2]

\* the requests the reader sends: files().get, and files().export_media with the
\* mimeType it asks for
GetRequest(id) == [ op |-> "get", id |-> id, as |-> "metadata" ]
ExportRequest(id, mime) == [ op |-> "export_media", id |-> id, as |-> mime ]
\* get_file_metadata, lines 102-114: the metadata, None on HttpError
get_file_metadata(id, meta) ==
    IF meta = "exception"
    THEN [ raised |-> TRUE, none |-> TRUE, requests |-> << GetRequest(id) >> ]
    ELSE IF meta = "http_error"
    THEN [ raised |-> FALSE, none |-> TRUE, requests |-> << GetRequest(id) >> ]
    ELSE [ raised |-> FALSE, none |-> FALSE, value |-> files[FileIndex(id)],
           requests |-> << GetRequest(id) >> ]
\* what an export call comes to: the text, None on HttpError, or an exception
Exported(exp, text, request) ==
    IF exp = "exception"
    THEN [ raised |-> TRUE, value |-> PyNone, requests |-> << request >> ]
    ELSE IF exp = "http_error"
    THEN [ raised |-> FALSE, value |-> PyNone, requests |-> << request >> ]
    ELSE [ raised |-> FALSE, value |-> text, requests |-> << request >> ]
\* read_google_doc, lines 126-148: the text, None on HttpError
read_google_doc(id, exp) == Exported(exp, TextOf(id), ExportRequest(id, "text/plain"))
\* read_google_sheet, lines 160-181: the CSV text, None on HttpError
read_google_sheet(id, exp) == Exported(exp, CsvOf(id), ExportRequest(id, "text/csv"))
\* a dispatch that takes every type that is not a document for a spreadsheet
ExportKindNoElse(mime) == IF mime = DocMime THEN "text" ELSE "csv"
\* the branch read_file_content takes for a content type, lines 206-214
ExportKind(mime) ==
    IF mime = DocMime THEN "text" ELSE IF mime = SheetMime THEN "csv" ELSE "none"
\* lines 206-214: the reading method chosen by the content type
ReadByType(id, mime, exp) ==
    IF ExportKind(mime) = "text" THEN read_google_doc(id, exp)
    ELSE IF ExportKind(mime) = "csv" THEN read_google_sheet(id, exp)
    ELSE [ raised |-> FALSE, value |-> PyNone, requests |-> << >> ]
\* the outcome of read_file_content with the requests it has sent
Sent(outcome, requests) ==
    [ raised |-> outcome.raised, value |-> outcome.value, requests |-> requests ]

\* read_file_content without the early return: metadata that is unavailable is
\* reported under the default name of metadata.get('name', 'Unknown')
read_file_content_DefaultName(id, meta, exp) ==
    LET metadata == get_file_metadata(id, meta)
    IN IF metadata.raised THEN Sent(Raised, metadata.requests)
       ELSE IF metadata.none THEN Sent(Value(<< "Unknown" >>, PyNone), metadata.requests)
       ELSE LET content == ReadByType(id, metadata.value.mimeType, exp)
                requests == metadata.requests \o content.requests
            IN IF content.raised THEN Sent(Raised, requests)
               ELSE Sent(Value(metadata.value.name, content.value), requests)
\* read_file_content, lines 194-216
read_file_content(id, meta, exp) ==
    LET metadata == get_file_metadata(id, meta)
    IN IF metadata.raised THEN Sent(Raised, metadata.requests)
       ELSE IF metadata.none THEN Sent(Value(PyNone, PyNone), metadata.requests)
       ELSE LET content == ReadByType(id, metadata.value.mimeType, exp)
                requests == metadata.requests \o content.requests
            IN IF content.raised THEN Sent(Raised, requests)
               ELSE Sent(Value(metadata.value.name, content.value), requests)

\* an exception that leaves the loop: the batch ends with what it has
AfterItemStopsOnException(r) ==
    /\ fetch_results' = IF r.raised THEN fetch_results ELSE Append(fetch_results, r.value)
    /\ fpc' = IF r.raised \/ Len(fetch_results) + 1 = Len(file_ids)
              THEN "done" ELSE "reading"
\* lines 238-249: results.append((file_name, content)), or on an exception
\* results.append((None, None)); line 255 after the last id
AfterItem(r) ==
    /\ fetch_results' = Append(fetch_results,
                               IF r.raised THEN << PyNone, PyNone >> ELSE r.value)
    /\ fpc' = IF Len(fetch_results) + 1 = Len(file_ids) THEN "done" ELSE "reading"

\* one iteration of the for loop of read_multiple_files, lines 233-249
ReadFile ==
    /\ fpc = "reading"
    /\ LET id == file_ids[Len(fetch_events) + 1]
       IN \E meta \in Answers, exp \in Answers :
            \* an export is answered only when one is requested
            /\ (exp # "ok" => meta = "ok" /\ ExportKind(files[FileIndex(id)].mimeType) # "none")
            /\ fetch_events' = Append(fetch_events,
                                     [ id |-> id, meta |-> meta, exp |-> exp,
                                       requests |->
                                           read_file_content(id, meta, exp).requests ])
            /\ AfterItem(read_file_content(id, meta, exp))
    /\ UNCHANGED << dvars, svars, qvars, file_ids >>

(* ------------------------- the content fetch -------------------------- *)
\* longest id list handed to read_multiple_files
MaxIds == 3
Mimes == { DocMime, SheetMime, PdfMime }
\* the ids asked for: files of the store, in any order, repeated or not
IdLists(n) == UNION { [ 1..k -> { FileId(i) : i \in 1..NumFiles } ] : k \in 0..n }

FetchInit ==
    /\ parentOf = << >>
    /\ \E ms \in [ 1..NumFiles -> Mimes ] :
         files = [ i \in 1..NumFiles |->
                     [ name |-> NameOf(i), mimeType |-> ms[i],
                       parents |-> << RootFolder >>,
                       createdTime |-> Day(1), modifiedTime |-> Day(1) ] ]
    /\ folder_id = NoFolder
    /\ recursive = FALSE
    /\ exclude_keywords = << >>
    /\ search_type = "created"
    /\ start_date = Day(1)
    /\ end_date = Day(1)
    /\ pc = "done"
    /\ start_date_str = Day(0)
    /\ end_date_str = Day(0)
    /\ time_field = Unset
    /\ stack = << >>
    /\ folders_to_search = << >>
    /\ idx = 1
    /\ page_token = NoToken
    /\ results = << >>
    /\ all_results = << >>
    /\ returned = << >>
    /\ calls = << >>
    /\ failed = {}
    /\ file_ids \in IdLists(MaxIds)
    /\ fpc = (IF file_ids = << >> THEN "done" ELSE "reading")
    /\ fetch_results = << >>
    /\ fetch_events = << >>
    /\ StoreUnused
    /\ QueryUnused

FetchNext == ReadFile

SpecFetch == FetchInit /\ [][FetchNext]_vars

(* -------------------- properties of the content fetch ----------------- *)
FetchDone == fpc = "done"
NoneNone == << PyNone, PyNone >>
\* an exception other than HttpError escaped while position i was processed
ExceptionAt(i) == fetch_events[i].meta = "exception" \/ fetch_events[i].exp = "exception"
\* name and content the remote store holds for the id at position i
StoredName(i) == files[file_ids[i][2]].name
StoredContent(i) ==
    LET mime == files[file_ids[i][2]].mimeType
    IN IF mime = DocMime THEN << "text", file_ids[i] >>
       ELSE IF mime = SheetMime THEN << "csv", file_ids[i] >>
       ELSE PyNone

\* C4: the result list has the length of the id list, position i holds what was
\* retrieved for file_ids[i] (its name, and its content when the export was served),
\* an exception at a position leaves (None, None) there, and the loop goes on to the
\* last id.
C4_SameLengthSameOrder ==
    /\ Len(fetch_results) = Len(fetch_events)
    /\ Len(fetch_events) <= Len(file_ids)
    /\ (fpc = "reading" <=> Len(fetch_events) < Len(file_ids))
    /\ \A i \in 1..Len(fetch_results) :
          /\ fetch_events[i].id = file_ids[i]
          /\ ExceptionAt(i) => fetch_results[i] = NoneNone
          /\ (fetch_events[i].meta = "ok" /\ ~ExceptionAt(i)) =>
                fetch_results[i][1] = StoredName(i)
          /\ (fetch_events[i].meta = "ok" /\ fetch_events[i].exp = "ok") =>
                fetch_results[i][2] = StoredContent(i)
\* an exception at the first id, and the content of a later id is retrieved
C4_Witness ==
    /\ FetchDone
    /\ Len(file_ids) >= 3
    /\ ExceptionAt(1)
    /\ \E i \in 2..Len(file_ids) :
          fetch_results[i][2] = StoredContent(i) /\ fetch_results[i][2] # PyNone

RetrievalFailed(i) == fetch_events[i].meta # "ok" \/ fetch_events[i].exp # "ok"
\* C5 as stated: every position whose retrieval failed holds (None, None).
C5_EveryFailureIsNoneNone ==
    FetchDone => \A i \in 1..Len(fetch_results) :
        RetrievalFailed(i) => fetch_results[i] = NoneNone
\* C5 amended: a position holds (None, None) when the metadata lookup is unavailable
\* or when an exception other than HttpError escapes; when the export of a document
\* or spreadsheet fails with a remote error (HttpError) the position holds
\* (name, None).
C5_FailureIsNoneNoneOrNameNone ==
    FetchDone => \A i \in 1..Len(fetch_results) :
        /\ (fetch_events[i].meta # "ok" \/ ExceptionAt(i)) => fetch_results[i] = NoneNone
        /\ (fetch_events[i].meta = "ok" /\ fetch_events[i].exp = "http_error") =>
              fetch_results[i] = << StoredName(i), PyNone >>
\* one position lost its metadata lookup, another the export of its content
C5_Witness ==
    /\ FetchDone
    /\ \E i, j \in 1..Len(fetch_results) :
          /\ fetch_events[i].meta = "http_error"
          /\ fetch_events[j].meta = "ok" /\ fetch_events[j].exp = "http_error"

\* the export requests sent while position i was processed
ExportsAt(i) ==
    { k \in 1..Len(fetch_events[i].requests) :
        fetch_events[i].requests[k].op = "export_media" }
DeclaredType(i) == files[FileIndex(fetch_events[i].id)].mimeType
\* position i was processed with one export, of its own id, as this type
OneExportAt(i, as) ==
    /\ Cardinality(ExportsAt(i)) = 1
    /\ \A k \in ExportsAt(i) :
          /\ fetch_events[i].requests[k].id = fetch_events[i].id
          /\ fetch_events[i].requests[k].as = as

\* C23: read_file_content sends one metadata lookup, first; metadata that is
\* unavailable gives (None, None) and no export; a document gives exactly one
\* plain-text export, a spreadsheet exactly one CSV export, and any other type
\* gives (name, None) and no export.
C23_DispatchOnDeclaredType ==
    \A i \in 1..Len(fetch_events) :
        /\ fetch_events[i].requests[1] =
               [ op |-> "get", id |-> fetch_events[i].id, as |-> "metadata" ]
        /\ Len(fetch_events[i].requests) = 1 + Cardinality(ExportsAt(i))
        /\ fetch_events[i].meta = "http_error" =>
               fetch_results[i] = NoneNone /\ ExportsAt(i) = {}
        /\ (fetch_events[i].meta = "ok"
              /\ DeclaredType(i) = "application/vnd.google-apps.document") =>
               OneExportAt(i, "text/plain")
        /\ (fetch_events[i].meta = "ok"
              /\ DeclaredType(i) = "application/vnd.google-apps.spreadsheet") =>
               OneExportAt(i, "text/csv")
        /\ (fetch_events[i].meta = "ok"
              /\ DeclaredType(i) \notin { "application/vnd.google-apps.document",
                                          "application/vnd.google-apps.spreadsheet" }) =>
               fetch_results[i] = << StoredName(i), PyNone >> /\ ExportsAt(i) = {}
\* one batch in which the metadata of an id was unavailable, a document or a
\* spreadsheet was exported and a file of another type was passed over
C23_Witness ==
    /\ FetchDone
    /\ \E i, j, k \in 1..Len(fetch_events) :
          /\ fetch_events[i].meta = "http_error"
          /\ fetch_events[j].meta = "ok" /\ Cardinality(ExportsAt(j)) = 1
          /\ fetch_results[j][2] # PyNone
          /\ fetch_events[k].meta = "ok" /\ DeclaredType(k) = PdfMime

(* ===================== collect_all.py: the pipeline =================== *)
\* longest run of operations on a collection
MaxRuns == 2
\* a dictionary entry set: record[key] = value
SetField(r, key, v) ==
    [ x \in DOMAIN r \cup { key } |-> IF x = key THEN v ELSE r[x] ]
RECURSIVE Concat(_)
Concat(ss) == IF ss = << >> THEN << >> ELSE Head(ss) \o Concat(Tail(ss))
Reverse(q) == [ i \in 1..Len(q) |-> q[Len(q) + 1 - i] ]
\* the name the remote store holds for a folder: what read_files(fid)[0] returns
FolderLabel(fid) == << "owner", fid[2] >>

\* get_all_subfolders when no request fails: the children in listing order, each
\* followed by its own subfolders
RECURSIVE SubfoldersOf(_)
SubfoldersOf(fid) ==
    LET kids == ChildFolders(fid)
    IN Concat([ k \in 1..Len(kids) |-> << kids[k] >> \o SubfoldersOf(kids[k]) ])

\* collect_files, lines 39-51: get_files_in_date_range(folder_id, start, end,
\* search_type='created', recursive=True) when no request fails
collect_files(fid, s_date, e_date) ==
    LET folders == << fid >> \o SubfoldersOf(fid)
    IN RemoveDuplicates(Concat([ k \in 1..Len(folders) |->
           Matches(folders[k], TimeField("created"),
                   StartOfDayStr(s_date), EndOfDayStr(e_date)) ]))
\* collect_contents, lines 53-57: read_files on the ids, every request served
collect_contents(collected) ==
    [ i \in 1..Len(collected) |-> read_file_content(collected[i].id, "ok", "ok").value ]
\* an enrichment that looks the content up by name: the content of the first
\* fetched tuple that carries the record's name
add_contents_by_name(collected, contents) ==
    [ i \in 1..Len(collected) |->
        LET named == { j \in 1..Len(contents) : contents[j][1] = collected[i].name }
        IN IF named # {}
           THEN SetField(collected[i], "content",
                         contents[CHOOSE j \in named : \A m \in named : j <= m][2])
           ELSE collected[i] ]
\* add_contents_to_files, lines 59-63
add_contents_to_files(collected, contents) ==
    [ i \in 1..Len(collected) |->
        IF collected[i].name = contents[i][1]
        THEN SetField(collected[i], "content", contents[i][2])
        ELSE collected[i] ]
\* get_idmap, lines 69-74: parents_ids.insert(0, fid) per record, then the tuple
ParentsTuple(shared_files) ==
    Reverse([ i \in 1..Len(shared_files) |-> shared_files[i].parents[1] ])
\* get_idmap, lines 76-81: one reader.read_files(fid) per element of the tuple
get_idmap(shared_files) ==
    [ fid \in Range(ParentsTuple(shared_files)) |-> FolderLabel(fid) ]
\* idmap.get(fid): None for an id the map does not hold
LookupLabelOrNone(idmap, fid) ==
    [ raised |-> FALSE, value |-> IF fid \in DOMAIN idmap THEN idmap[fid] ELSE PyNone ]
\* idmap[fid], line 87: KeyError for an id the map does not hold
LookupLabel(idmap, fid) ==
    IF fid \in DOMAIN idmap THEN [ raised |-> FALSE, value |-> idmap[fid] ]
    ELSE [ raised |-> TRUE, value |-> PyNone ]
\* add_created_by_to_files, lines 84-88: the records are changed in place, one
\* after the other, up to the first KeyError, which ends the call
add_created_by_to_files(collected, idmap) ==
    LET bad == { i \in 1..Len(collected) :
                   LookupLabel(idmap, collected[i].parents[1]).raised }
        stop == IF bad = {} THEN Len(collected) + 1
                ELSE CHOOSE i \in bad : \A j \in bad : i <= j
    IN [ raised |-> bad # {},
         value |-> [ i \in 1..Len(collected) |->
                       IF i < stop
                       THEN SetField(collected[i], "created_by",
                                     LookupLabel(idmap, collected[i].parents[1]).value)
                       ELSE collected[i] ] ]
\* insert_documents_to_mongo, lines 121-124: collection.insert_many(documents)
insert_documents_to_mongo(documents, collection) == collection \o documents

\* folder_list, line 144: the shared folder and a personal folder
shared_folder_id == FolderId(0)
folder_list == << FolderId(0), FolderId(1) >>
\* lines 157-163 for one folder
FilesOfFolder(fid, s_date, e_date) ==
    LET collected == collect_files(fid, s_date, e_date)
        with_content == add_contents_to_files(collected, collect_contents(collected))
    IN IF fid = shared_folder_id
       THEN add_created_by_to_files(with_content, get_idmap(with_content)).value
       ELSE with_content
\* lines 166-172: insert the files of each folder, in the order of folder_list
RECURSIVE InsertEach(_, _)
InsertEach(lists, collection) ==
    IF lists = << >> THEN collection
    ELSE InsertEach(Tail(lists),
                    IF Len(Head(lists)) > 0
                    THEN insert_documents_to_mongo(Head(lists), collection)
                    ELSE collection)

\* one run of __main__, lines 126-172, over the window s_date..e_date
PipelineRun ==
    /\ runs < MaxRuns
    /\ \E s \in 1..MaxDay, e \in 1..MaxDay :
         /\ s <= e
         /\ LET files_dict == [ k \in 1..Len(folder_list) |->
                                  FilesOfFolder(folder_list[k], Day(s), Day(e)) ]
            IN /\ recordings' = InsertEach(files_dict, recordings)
               /\ lookups' = ParentsTuple(files_dict[1])
    /\ runs' = runs + 1
    /\ UNCHANGED << dvars, fvars, qvars, shared_recordings, last_update, attribution >>

\* the sub-folders: F1 is a source folder of its own, the others lie below a folder
PipelineShapes ==
    { p \in [ 1..NumSub -> (0 - 1)..NumSub ] :
        /\ p[1] = 0 - 1
        /\ \A i \in 2..NumSub : p[i] >= 0 /\ p[i] < i }

PipelineInit ==
    /\ parentOf \in PipelineShapes
    /\ \E ps \in [ 1..NumFiles -> 0..NumSub ], ts \in [ 1..NumFiles -> 1..MaxDay ] :
         files = [ i \in 1..NumFiles |->
                     [ name |-> NameOf(i), mimeType |-> DocMime,
                       parents |-> << FolderId(ps[i]) >>,
                       createdTime |-> Day(ts[i]), modifiedTime |-> Day(ts[i]) ] ]
    /\ folder_id = NoFolder
    /\ recursive = FALSE
    /\ exclude_keywords = << >>
    /\ search_type = "created"
    /\ start_date = Day(1)
    /\ end_date = Day(1)
    /\ pc = "done"
    /\ start_date_str = Day(0)
    /\ end_date_str = Day(0)
    /\ time_field = Unset
    /\ stack = << >>
    /\ folders_to_search = << >>
    /\ idx = 1
    /\ page_token = NoToken
    /\ results = << >>
    /\ all_results = << >>
    /\ returned = << >>
    /\ calls = << >>
    /\ failed = {}
    /\ FetchUnused
    /\ StoreUnused
    /\ QueryUnused

PipelineNext == PipelineRun

SpecPipeline == PipelineInit /\ [][PipelineNext]_vars

(* ----------------------- properties of the pipeline ------------------- *)
\* C3 as stated: whatever runs were made, the collection holds at most one
\* document per remote file identifier.
C3_OneDocumentPerFileId ==
    \A i, j \in 1..Len(recordings) : recordings[i].id = recordings[j].id => i = j

\* C6 as stated: one build of the idmap looks a folder id up at most once.
C6_OneLookupPerFolderId ==
    \A i, j \in 1..Len(lookups) : lookups[i] = lookups[j] => i = j

\* C24 as stated: every document the pipeline has inserted carries the fields
\* content and created_by, whichever folder of folder_list it was collected from.
C24_EveryDocumentHasBothDerivedFields ==
    \A k \in 1..Len(recordings) :
        { "content", "created_by" } \subseteq DOMAIN recordings[k]

(* ------- collect_contents and add_contents_to_files on one list -------- *)
\* the lists discovery returns: records of the store, no id twice
DiscoveredLists ==
    { q \in ListsOver({ FileRecord(i) : i \in 1..NumFiles }, NumFiles) :
        \A i, j \in 1..Len(q) : q[i].id = q[j].id => i = j }

EnrichInit ==
    /\ parentOf = << >>
    /\ \E ns \in [ 1..NumFiles -> 1..2 ], ms \in [ 1..NumFiles -> Mimes ] :
         files = [ i \in 1..NumFiles |->
                     [ name |-> NameOf(ns[i]), mimeType |-> ms[i],
                       parents |-> << RootFolder >>,
                       createdTime |-> Day(1), modifiedTime |-> Day(1) ] ]
    /\ folder_id = RootFolder
    /\ recursive = TRUE
    /\ exclude_keywords = << >>
    /\ search_type = "created"
    /\ start_date = Day(1)
    /\ end_date = Day(1)
    /\ pc = "done"
    /\ start_date_str = StartOfDayStr(Day(1))
    /\ end_date_str = EndOfDayStr(Day(1))
    /\ time_field = TimeField("created")
    /\ stack = << >>
    /\ folders_to_search = << >>
    /\ idx = 1
    /\ page_token = NoToken
    /\ results = << >>
    /\ all_results = << >>
    /\ returned \in DiscoveredLists
    /\ calls = << >>
    /\ failed = {}
    \* collect_contents, line 54: the ids of the records, in their order
    /\ file_ids = [ i \in 1..Len(returned) |-> returned[i].id ]
    /\ fpc = (IF file_ids = << >> THEN "done" ELSE "reading")
    /\ fetch_results = << >>
    /\ fetch_events = << >>
    /\ StoreUnused
    /\ QueryUnused

\* add_contents_to_files, lines 59-63, on the list discovery returned and the
\* tuples read_files returned for it; the records are changed in place
AddContents ==
    /\ fpc = "done"
    /\ returned' = add_contents_to_files(returned, fetch_results)
    /\ fpc' = "added"
    /\ UNCHANGED << parentOf, files, folder_id, recursive, exclude_keywords,
                    search_type, start_date, end_date, pc, start_date_str,
                    end_date_str, time_field, stack, folders_to_search, idx,
                    page_token, results, all_results, calls, failed >>
    /\ UNCHANGED << file_ids, fetch_results, fetch_events, svars, qvars >>

EnrichNext == ReadFile \/ AddContents

SpecEnrich == EnrichInit /\ [][EnrichNext]_vars

(* ---------------------- properties of the enrichment ------------------ *)
ContentsAdded == fpc = "added"
\* what an export of this file delivers
ExportOf(id) ==
    IF files[id[2]].mimeType = DocMime THEN << "text", id >>
    ELSE IF files[id[2]].mimeType = SheetMime THEN << "csv", id >>
    ELSE << "None" >>
\* every request made for the id at position i was served
Served(i) == fetch_events[i].meta = "ok" /\ fetch_events[i].exp = "ok"

\* C25: after collect_contents and add_contents_to_files a record that has a
\* content field holds what was fetched for its own id at its own position: the
\* export of its own file when the fetch was served, None when the export was
\* refused; whatever happened to the fetch of the other records.
C25_ContentIsTheRecordsOwn ==
    ContentsAdded =>
        /\ Len(returned) = Len(fetch_events)
        /\ \A i \in 1..Len(returned) :
              "content" \in DOMAIN returned[i] =>
                  /\ fetch_events[i].id = returned[i].id
                  /\ returned[i].content = fetch_results[i][2]
                  /\ returned[i].content =
                         IF Served(i) THEN ExportOf(returned[i].id) ELSE << "None" >>
\* two records of one name: the fetch of the first gave (None, None) and left it
\* without content, the second holds the text of its own file
C25_Witness ==
    /\ ContentsAdded
    /\ Len(returned) = 2
    /\ returned[1].name = returned[2].name
    /\ fetch_results[1] = NoneNone
    /\ "content" \notin DOMAIN returned[1]
    /\ "content" \in DOMAIN returned[2]
    /\ returned[2].content = << "text", returned[2].id >>

(* ============ collect_all.py: labels of the stored documents ========== *)
\* most documents in client.shared.recordings
MaxDocs == 2
\* an update that appends the label to the field instead of replacing it
PushCreatedBy(doc, label) ==
    SetField(doc, "created_by",
             IF "created_by" \in DOMAIN doc THEN doc.created_by \o label ELSE label)
\* {"$set": {"created_by": label}} on one document
SetCreatedBy(doc, label) == SetField(doc, "created_by", label)
\* the filter {"parents.0": fid}
FirstParentIs(doc, fid) == Len(doc.parents) >= 1 /\ doc.parents[1] = fid
\* update_one in place of update_many: only the first document the filter matches
update_one(collection, fid, label) ==
    [ k \in 1..Len(collection) |->
        IF /\ FirstParentIs(collection[k], fid)
           /\ \A j \in 1..(k - 1) : ~FirstParentIs(collection[j], fid)
        THEN SetCreatedBy(collection[k], label)
        ELSE collection[k] ]
\* update_many(filter, update), line 103
update_many(collection, fid, label) ==
    [ k \in 1..Len(collection) |->
        IF FirstParentIs(collection[k], fid)
        THEN SetCreatedBy(collection[k], label)
        ELSE collection[k] ]
\* update_created_by_in_mongo, lines 101-107: idmap[fid] raises KeyError for an
\* id outside the map, and the loop ends there
RECURSIVE update_created_by_in_mongo(_, _, _)
update_created_by_in_mongo(distinct_ids, idmap, collection) ==
    IF distinct_ids = << >> THEN collection
    ELSE IF Head(distinct_ids) \notin DOMAIN idmap THEN collection
    ELSE update_created_by_in_mongo(Tail(distinct_ids), idmap,
             update_many(collection, Head(distinct_ids), idmap[Head(distinct_ids)]))
\* get_all_distict_ids, lines 90-92: distinct("parents.0")
get_all_distict_ids(collection) ==
    LET firsts == { collection[k].parents[1][2] :
                      k \in { n \in 1..Len(collection) : Len(collection[n].parents) >= 1 } }
        order == SortedSeq(firsts)
    IN [ k \in 1..Len(order) |-> FolderId(order[k]) ]
\* map_ids_to_names, lines 94-99: read_files(fid)[0] is None when the read fails
map_ids_to_names(distinct_ids, unreadable) ==
    [ fid \in Range(distinct_ids) |->
        IF fid \in unreadable THEN PyNone ELSE FolderLabel(fid) ]

\* the label maps: any part of the folders, each with the name the remote store
\* holds for it or with None
LabelMaps ==
    UNION { { [ fid \in S |-> IF fid \in unreadable THEN PyNone ELSE FolderLabel(fid) ] :
                unreadable \in SUBSET S } : S \in SUBSET Folders }
\* the id lists handed to the update
IdArgs == { << >> } \cup { << f >> : f \in Folders }
              \cup { << f, g >> : f \in Folders, g \in Folders }

\* update_created_by_in_mongo called with some id list and some label map
Relabel ==
    /\ last_update = NoUpdate
    /\ \E ids \in IdArgs, idmap \in LabelMaps :
         /\ shared_recordings' = update_created_by_in_mongo(ids, idmap, shared_recordings)
         /\ last_update' = [ distinct_ids |-> ids, idmap |-> idmap,
                             before |-> shared_recordings ]
    /\ UNCHANGED << dvars, fvars, qvars, recordings, runs, lookups, attribution >>

\* the labels refreshed from the collection itself: get_all_distict_ids,
\* map_ids_to_names, update_created_by_in_mongo
RelabelFromStore ==
    /\ last_update = NoUpdate
    /\ LET ids == get_all_distict_ids(shared_recordings)
       IN \E unreadable \in SUBSET Range(ids) :
            LET idmap == map_ids_to_names(ids, unreadable)
            IN /\ lookups' = ids
               /\ shared_recordings' =
                      update_created_by_in_mongo(ids, idmap, shared_recordings)
               /\ last_update' = [ distinct_ids |-> ids, idmap |-> idmap,
                                   before |-> shared_recordings ]
    /\ UNCHANGED << dvars, fvars, qvars, recordings, runs, attribution >>

\* update_created_by_in_mongo called once more with the arguments of the call
\* before it, nothing else having touched the collection
RelabelAgain ==
    /\ last_update # NoUpdate
    /\ shared_recordings' =
           update_created_by_in_mongo(last_update.distinct_ids, last_update.idmap,
                                      shared_recordings)
    /\ last_update' = NoUpdate
    /\ UNCHANGED << dvars, fvars, qvars, recordings, runs, lookups, attribution >>

\* the documents the collection can hold: with or without a label
StoredDocs(k) ==
    LET bare == { [ id |-> FileId(k), parents |-> << f >> ] : f \in Folders }
    IN bare \cup { SetCreatedBy(d, << "stale" >>) : d \in bare }

LabelsInit ==
    /\ parentOf \in PipelineShapes
    /\ files = << >>
    /\ folder_id = NoFolder
    /\ recursive = FALSE
    /\ exclude_keywords = << >>
    /\ search_type = "created"
    /\ start_date = Day(1)
    /\ end_date = Day(1)
    /\ pc = "done"
    /\ start_date_str = Day(0)
    /\ end_date_str = Day(0)
    /\ time_field = Unset
    /\ stack = << >>
    /\ folders_to_search = << >>
    /\ idx = 1
    /\ page_token = NoToken
    /\ results = << >>
    /\ all_results = << >>
    /\ returned = << >>
    /\ calls = << >>
    /\ failed = {}
    /\ FetchUnused
    /\ recordings = << >>
    /\ runs = 0
    /\ lookups = << >>
    /\ \E n \in 0..MaxDocs :
         \E docs \in [ 1..n -> UNION { StoredDocs(k) : k \in 1..MaxDocs } ] :
           /\ \A k \in 1..n : docs[k] \in StoredDocs(k)
           /\ shared_recordings = docs
    /\ last_update = NoUpdate
    /\ attribution = NoAttribution
    /\ QueryUnused

LabelsNext == Relabel \/ RelabelFromStore \/ RelabelAgain

SpecLabels == LabelsInit /\ [][LabelsNext]_vars

(* ------------------------ properties of the labels -------------------- *)
\* C7: the relabel operation run a second time with the same id list and the
\* same label map, the collection untouched in between, changes no document.
C7_RelabelAgainChangesNothing ==
    [][RelabelAgain => shared_recordings' = shared_recordings]_vars
\* the first run set a label on a document and left another document alone
C7_Witness ==
    /\ last_update # NoUpdate
    /\ last_update.before # shared_recordings
    /\ \E k \in 1..Len(shared_recordings) :
         /\ "created_by" \in DOMAIN shared_recordings[k]
         /\ shared_recordings[k].parents[1] \in DOMAIN last_update.idmap
         /\ shared_recordings[k].created_by =
                last_update.idmap[shared_recordings[k].parents[1]]
         /\ shared_recordings[k] # last_update.before[k]
    /\ \E k \in 1..Len(shared_recordings) :
         shared_recordings[k] = last_update.before[k]

\* C15 as stated: a build of the label map that meets a folder whose lookup yields
\* no name raises: no map with a None label comes out of it and no document is
\* given None as created_by.
C15_UnresolvedLabelIsNeverRecorded ==
    [][RelabelFromStore =>
         /\ \A fid \in DOMAIN last_update'.idmap : last_update'.idmap[fid] # PyNone
         /\ \A k \in 1..Len(shared_recordings') :
               shared_recordings'[k].parents[1] \in DOMAIN last_update'.idmap
                   => shared_recordings'[k].created_by # PyNone]_vars

\* the last call went through its whole id list: no idmap[fid] raised KeyError
UpdateCompleted ==
    /\ last_update # NoUpdate
    /\ Range(last_update.distinct_ids) \subseteq DOMAIN last_update.idmap
\* the fields of a document other than created_by
OtherFields(doc) == [ f \in (DOMAIN doc) \ { "created_by" } |-> doc[f] ]
\* what a completed call has done to the collection when the documents it was to
\* label are those whose first parent is in targets
LabelsApplied(targets) ==
    /\ Len(shared_recordings) = Len(last_update.before)
    /\ \A k \in 1..Len(shared_recordings) :
          /\ OtherFields(shared_recordings[k]) = OtherFields(last_update.before[k])
          /\ IF shared_recordings[k].parents[1] \in targets
             THEN /\ "created_by" \in DOMAIN shared_recordings[k]
                  /\ shared_recordings[k].created_by =
                         last_update.idmap[shared_recordings[k].parents[1]]
             ELSE shared_recordings[k] = last_update.before[k]

NumNested == 3

\* get_all_subfolders(service, folder_id) called on a folder of a tree without files
TraverseInit ==
    /\ parentOf \in { p \in [ 1..NumNested -> 0..NumNested ] :
                        \A i \in 1..NumNested : p[i] < i }
    /\ files = << >>
    /\ folder_id \in { FolderId(0), FolderId(1) }
    /\ recursive = TRUE
    /\ exclude_keywords = << >>
    /\ search_type = "created"
    /\ start_date = Day(1)
    /\ end_date = Day(1)
    /\ pc = "traverse"
    /\ start_date_str = Day(0)
    /\ end_date_str = Day(0)
    /\ time_field = Unset
    /\ stack = << NewFrame(folder_id) >>
    /\ folders_to_search = << >>
    /\ idx = 1
    /\ page_token = NoToken
    /\ results = << >>
    /\ all_results = << >>
    /\ returned = << >>
    /\ calls = << >>
    /\ failed = {}
    /\ FetchUnused
    /\ StoreUnused
    /\ QueryUnused

TraverseNext == TraverseList \/ TraverseDescend \/ TraverseReturn

SpecTraverse == TraverseInit /\ [][TraverseNext]_vars

(* ---------------------- properties of the traversal ------------------- *)
\* the folder of index i and the folders above it
RECURSIVE PathToRoot(_)
PathToRoot(i) == IF i = 0 THEN { 0 } ELSE { i } \cup PathToRoot(parentOf[i])
\* the proper descendants of a folder, at any depth
DescendantsOf(fid) ==
    IF fid \in Folders
    THEN { FolderId(i) : i \in { j \in DOMAIN parentOf : fid[2] \in PathToRoot(parentOf[j]) } }
    ELSE {}
\* the folders from fid's parent up to, and with, the folder the traversal began at
BetweenRootAnd(fid) ==
    { FolderId(a) : a \in { b \in PathToRoot(parentOf[fid[2]]) :
                              b = folder_id[2] \/ FolderId(b) \in DescendantsOf(folder_id) } }
\* get_all_subfolders has returned to line 310, and what it returned
TraversalReturned == pc = "search" /\ stack = << >>
Subfolders == Tail(folders_to_search)
ListingOf(n, fid) == calls[n].op = "list_folders" /\ calls[n].arg = fid
ListingFailed(fid) == \E n \in failed : ListingOf(n, fid)

\* C11: a failed listing ends nothing but the listing of that folder: the
\* traversal returns, every folder of a page that was fetched is returned, and so
\* is every descendant below which and above which no listing failed.
C11_FailedListingIsSwallowed ==
    /\ pc = "traverse" => stack # << >>
    /\ TraversalReturned =>
          /\ \A n \in 1..Len(calls) :
                (calls[n].op = "list_folders" /\ n \notin failed) =>
                    Range(PageOf(ChildFolders(calls[n].arg), calls[n].token))
                        \subseteq Range(Subfolders)
          /\ \A g \in DescendantsOf(folder_id) :
                (\A a \in BetweenRootAnd(g) : ~ListingFailed(a)) => g \in Range(Subfolders)
\* the listing of a child X failed; a sibling listed after X and a folder below
\* that sibling are returned, and so is X
C11_Witness ==
    /\ TraversalReturned
    /\ \E x, y, z \in DOMAIN parentOf :
          /\ x < y
          /\ parentOf[x] = folder_id[2] /\ parentOf[y] = folder_id[2]
          /\ parentOf[z] = y
          /\ ListingFailed(FolderId(x))
          /\ { FolderId(x), FolderId(y), FolderId(z) } \subseteq Range(Subfolders)

\* C18: when no request fails the returned list holds every proper descendant of
\* the folder, whatever page of a listing it came on, each once, and not the folder
\* itself.
C18_EveryDescendantNotTheRoot ==
    (TraversalReturned /\ failed = {}) =>
        /\ Range(Subfolders) = DescendantsOf(folder_id)
        /\ Len(Subfolders) = Cardinality(DescendantsOf(folder_id))
        /\ folder_id \notin Range(Subfolders)
\* a child that came on a later page of a listing and a folder two levels down
\* are returned
C18_Witness ==
    /\ TraversalReturned
    /\ failed = {}
    /\ \E n \in 1..Len(calls) :
          /\ calls[n].op = "list_folders" /\ calls[n].token # NoToken
          /\ Range(PageOf(ChildFolders(calls[n].arg), calls[n].token)) # {}
          /\ Range(PageOf(ChildFolders(calls[n].arg), calls[n].token))
                 \subseteq Range(Subfolders)
    /\ \E g \in Range(Subfolders) : parentOf[g[2]] # folder_id[2]

\* C19 as stated: every page of a folder's listing is fetched before a listing
\* request is issued for one of that folder's children.
C19_ListingDrainedBeforeRecursing ==
    \A n \in 1..Len(calls) :
        (calls[n].op = "list_folders" /\ calls[n].arg # folder_id) =>
            \A m \in 1..Len(calls) :
                ListingOf(m, FolderId(parentOf[calls[n].arg[2]])) => m < n

(* ============ get_files_in_date_range: the request as given =========== *)
\* a date given as a 'YYYY-MM-DD' string: its month and day-of-month fields
DateString(m, d) == [ month |-> m, dom |-> d ]
IsString(d) == "month" \in DOMAIN d
DaysIn(m) == IF m = 2 THEN 28 ELSE IF m \in { 4, 6, 9, 11 } THEN 30 ELSE 31
\* datetime.strptime(s, '%Y-%m-%d') raises ValueError
Unparseable(d) ==
    IsString(d) /\ ~(d.month \in 1..12 /\ d.dom \in 1..DaysIn(d.month))
\* datetime.strptime(s, '%Y-%m-%d'): midnight of the day (the strings name January)
ParsedDate(d) == IF IsString(d) THEN [ day |-> d.dom, sec |-> 0 ] ELSE d

\* lines 268-271: if isinstance(start_date, str): start_date = strptime(...)
ParseDates ==
    /\ pc = "args"
    /\ IF Unparseable(start_date) \/ Unparseable(end_date)
       THEN /\ pc' = "raised"
            /\ UNCHANGED << start_date, end_date >>
       ELSE /\ start_date' = ParsedDate(start_date)
            /\ end_date' = ParsedDate(end_date)
            /\ pc' = "start"
    /\ UNCHANGED << parentOf, files, folder_id, recursive, exclude_keywords,
                    search_type, start_date_str, end_date_str, time_field, stack,
                    folders_to_search, idx, page_token, results, all_results,
                    returned, calls, failed >>
    /\ UNCHANGED << fvars, svars, qvars >>

\* the dates a caller passes: strings that parse, strings that do not, datetimes
RequestDates ==
    { DateString(m, d) : m \in { 1, 13 }, d \in (1..MaxDay) \cup { 32 } }
        \cup { Day(d) : d \in 1..MaxDay }
SearchTypes == { "created", "modified", "accessed" }

RequestInit ==
    /\ parentOf = [ i \in 1..NumSub |-> 0 ]
    /\ \E ts \in [ 1..NumFiles -> 1..MaxDay ] :
         files = [ i \in 1..NumFiles |->
                     [ name |-> NameOf(i), mimeType |-> DocMime,
                       parents |-> << RootFolder >>,
                       createdTime |-> Day(ts[i]), modifiedTime |-> Day(MaxDay) ] ]
    /\ folder_id \in { NoFolder, RootFolder }
    /\ recursive \in BOOLEAN
    /\ exclude_keywords = << >>
    /\ search_type \in SearchTypes
    /\ start_date \in RequestDates
    /\ end_date \in RequestDates
    /\ pc = "args"
    /\ start_date_str = Day(0)
    /\ end_date_str = Day(0)
    /\ time_field = Unset
    /\ stack = << >>
    /\ folders_to_search = << >>
    /\ idx = 1
    /\ page_token = NoToken
    /\ results = << >>
    /\ all_results = << >>
    /\ returned = << >>
    /\ calls = << >>
    /\ failed = {}
    /\ FetchUnused
    /\ StoreUnused
    /\ QueryUnused

RequestNext == ParseDates \/ DiscoverNext

SpecRequest == RequestInit /\ [][RequestNext]_vars

(* ----------------------- properties of the request -------------------- *)
MalformedRequest ==
    \/ Unparseable(start_date)
    \/ Unparseable(end_date)
    \/ search_type \notin { "created", "modified" }
\* C13 as stated: a request with a date that does not parse or with a search type
\* other than 'created' and 'modified' ends in an error and issues no remote call.
C13_MalformedInputIssuesNoCall ==
    MalformedRequest => (calls = << >> /\ pc \in { "args", "raised" })

(* ============== collect_all.py: add_created_by_to_files =============== *)
\* the records handed to add_created_by_to_files: each lies in one folder
AttributionRecords ==
    UNION { [ 1..n -> { [ id |-> FileId(k), name |-> NameOf(k), parents |-> << f >> ] :
                          k \in 1..NumFiles, f \in Folders } ] : n \in 0..NumFiles }

AttributionInit ==
    /\ parentOf \in PipelineShapes
    /\ files = << >>
    /\ folder_id = NoFolder
    /\ recursive = FALSE
    /\ exclude_keywords = << >>
    /\ search_type = "created"
    /\ start_date = Day(1)
    /\ end_date = Day(1)
    /\ pc = "done"
    /\ start_date_str = Day(0)
    /\ end_date_str = Day(0)
    /\ time_field = Unset
    /\ stack = << >>
    /\ folders_to_search = << >>
    /\ idx = 1
    /\ page_token = NoToken
    /\ results = << >>
    /\ all_results = << >>
    /\ returned = << >>
    /\ calls = << >>
    /\ failed = {}
    /\ FetchUnused
    /\ recordings = << >>
    /\ runs = 0
    /\ lookups = << >>
    /\ shared_recordings = << >>
    /\ last_update = NoUpdate
    /\ \E fs \in AttributionRecords, m \in LabelMaps :
         /\ \A i \in 1..Len(fs) : fs[i].id = FileId(i)
         /\ attribution = [ collected_files |-> fs, idmap |-> m,
                            called |-> FALSE, raised |-> FALSE ]
    /\ QueryUnused

\* add_created_by_to_files(collected_files, idmap) runs
ApplyAttribution ==
    /\ ~attribution.called
    /\ LET r == add_created_by_to_files(attribution.collected_files, attribution.idmap)
       IN attribution' = [ collected_files |-> r.value, idmap |-> attribution.idmap,
                           called |-> TRUE, raised |-> r.raised ]
    /\ UNCHANGED << dvars, fvars, qvars, recordings, runs, lookups,
                    shared_recordings, last_update >>

AttributionNext == ApplyAttribution

SpecAttribution == AttributionInit /\ [][AttributionNext]_vars

(* --------------------- properties of the attribution ------------------ *)
FirstParent(rec) == rec.parents[1]
KeyMissing(rec) == FirstParent(rec) \notin DOMAIN attribution.idmap
\* C14: the call ends in a KeyError exactly when the first parent of some record
\* is not a key of the map; a record whose key is missing is never given a
\* created_by, and a call that returns has set created_by of every record to the
\* label of its first parent.
C14_MissingKeyIsAHardError ==
    attribution.called =>
        LET fs == attribution.collected_files
        IN /\ attribution.raised <=> \E i \in 1..Len(fs) : KeyMissing(fs[i])
           /\ \A i \in 1..Len(fs) :
                 KeyMissing(fs[i]) => "created_by" \notin DOMAIN fs[i]
           /\ ~attribution.raised =>
                 \A i \in 1..Len(fs) :
                     /\ "created_by" \in DOMAIN fs[i]
                     /\ fs[i].created_by = attribution.idmap[FirstParent(fs[i])]
\* the second record's parent is not in the map: the call raised after the first
\* record was labelled
C14_Witness ==
    /\ attribution.called
    /\ attribution.raised
    /\ Len(attribution.collected_files) >= 2
    /\ "created_by" \in DOMAIN attribution.collected_files[1]
    /\ KeyMissing(attribution.collected_files[2])

(* ============== get_files_in_date_range with debug set or not ========= *)
DebugInit ==
    /\ parentOf \in { p \in [ 1..NumSub -> 0..NumSub ] : \A i \in 1..NumSub : p[i] < i }
    /\ \E ps \in [ 1..NumFiles -> ParentLists(NumSub) ], ts \in [ 1..NumFiles -> { Day(1), Day(2) } ] :
         files = [ i \in 1..NumFiles |->
                     [ name |-> NameOf(i), mimeType |-> DocMime, parents |-> ps[i],
                       createdTime |-> ts[i], modifiedTime |-> ts[i] ] ]
    /\ folder_id \in { NoFolder, RootFolder }
    /\ recursive = (folder_id # NoFolder)
    /\ exclude_keywords \in { << >>, << << "d", "r" >> >> }
    /\ search_type = "created"
    /\ start_date = Day(1)
    /\ end_date = Day(1)
    /\ pc = "start"
    /\ start_date_str = Day(0)
    /\ end_date_str = Day(0)
    /\ time_field = Unset
    /\ stack = << >>
    /\ folders_to_search = << >>
    /\ idx = 1
    /\ page_token = NoToken
    /\ results = << >>
    /\ all_results = << >>
    /\ returned = << >>
    /\ calls = << >>
    /\ failed = {}
    /\ FetchUnused
    /\ StoreUnused
    /\ debug \in BOOLEAN
    /\ file_types = << >>
    /\ filename_keywords = << >>
    /\ printed = << >>
    /\ query = << >>

SpecDebug == DebugInit /\ [][DiscoverNext]_vars

(* ---------------------- properties of the debug flag ------------------ *)
\* the scopes of the first requests of the queries among requests 1..n, in order
RECURSIVE StartsUpTo(_)
StartsUpTo(n) ==
    IF n = 0 THEN << >>
    ELSE StartsUpTo(n - 1) \o (IF IsSearch(n) /\ calls[n].token = NoToken
                               THEN << calls[n].arg >> ELSE << >>)
\* the scopes to query: the folder set, or the whole store
ScopesToQuery == IF folders_to_search = << >> THEN << NoFolder >> ELSE folders_to_search

\* C16: whatever debug is, the queries go to the scopes of the folder set in their
\* order, the records gathered are the items the remote store sent, and the list
\* returned is those items without duplicates and excluded names: none of it
\* depends on debug, which only adds printed lines.
C16_DebugDoesNotAlterResults ==
    /\ ~debug => printed = << >>
    /\ StartsUpTo(Len(calls)) = SubSeq(ScopesToQuery, 1, Len(StartsUpTo(Len(calls))))
    /\ all_results \o results = ItemsUpTo(Len(calls))
    /\ Returned =>
          returned = IF RootLookupFailed THEN << >>
                     ELSE filter_by_exclude_keywords(
                              RemoveDuplicates(ItemsUpTo(Len(calls))), exclude_keywords)
\* a run with debug set printed its queries, a count of found files and a count
\* of excluded files, and returned records
C16_Witness ==
    /\ Returned
    /\ debug
    /\ { "query", "found", "excluded" } \subseteq Range(printed)
    /\ returned # << >>

(* -------------------- properties of the folder scopes ----------------- *)
SearchStarts == StartsUpTo(Len(calls))
NoCallOf(op) == \A n \in 1..Len(calls) : calls[n].op # op
\* the folders on the pages of the listings that were answered
DiscoveredFolders ==
    UNION { Range(PageOf(ChildFolders(calls[n].arg), calls[n].token)) :
              n \in { m \in 1..Len(calls) : calls[m].op = "list_folders" /\ m \notin failed } }
\* the files in the window that lie in one of the folders
InWindowIn(folders) ==
    { FileId(i) : i \in { j \in DOMAIN files :
                            /\ InWindow(files[j], time_field, start_date_str, end_date_str)
                            /\ Range(files[j].parents) \cap folders # {} } }
ScopeRule ==
    /\ (folder_id # NoFolder /\ recursive) =>
          /\ Head(SearchStarts) = folder_id
          /\ Range(SearchStarts) = { folder_id } \cup DiscoveredFolders
          /\ Len(SearchStarts) = Cardinality(Range(SearchStarts))
          /\ Ids(returned) \subseteq InWindowIn(Range(SearchStarts))
          /\ (failed = {} /\ exclude_keywords = << >>) =>
                Ids(returned) = InWindowIn({ folder_id } \cup DescendantsOf(folder_id))
    /\ (folder_id # NoFolder /\ ~recursive) =>
          /\ SearchStarts = << folder_id >>
          /\ NoCallOf("list_folders")
    /\ folder_id = NoFolder =>
          /\ SearchStarts = << NoFolder >>
          /\ NoCallOf("get")
          /\ NoCallOf("list_folders")

\* C17 as stated: with a folder and recursive set one query goes to the folder and
\* to each discovered descendant; with a folder and recursive not set exactly one
\* query goes to the folder and nothing is listed; without a folder exactly one
\* query goes to the whole store, nothing is verified and nothing is listed.
C17_ScopesFollowFolderAndRecursive == Returned => ScopeRule
\* C17 amended: that holds whenever the lookup of the given folder is answered; when
\* it fails the call ends with that one request, no query and no records.
C17_ScopesOfAnAnsweredRoot ==
    Returned =>
        IF RootLookupFailed
        THEN SearchStarts = << >> /\ returned = << >> /\ NoCallOf("list_folders")
        ELSE ScopeRule
\* a recursive run returned a file that lies in a sub-folder only and left out a
\* file of the root folder that is outside the window
C17_Witness ==
    /\ Returned
    /\ folder_id = RootFolder /\ recursive /\ failed = {}
    /\ \E i, j \in DOMAIN files :
          /\ RootFolder \notin Range(files[i].parents)
          /\ FileId(i) \in Ids(returned)
          /\ RootFolder \in Range(files[j].parents)
          /\ FileId(j) \notin Ids(returned)
          /\ ~KeywordHits(files[j].name, exclude_keywords)

(* ------------- lines 381-397 on any merged results -------------------- *)
\* longest merged result list
MaxMerged == 4
\* the records a merged result list is made of: one more file than the two names
MergedRecords == { FileRecord(i) : i \in 1..(NumFiles + 1) }

OrderInit ==
    /\ parentOf = [ i \in 1..NumSub |-> 0 ]
    /\ files = [ i \in 1..(NumFiles + 1) |->
                   [ name |-> NameOf(i), mimeType |-> DocMime,
                     parents |-> << RootFolder >>,
                     createdTime |-> Day(1), modifiedTime |-> Day(1) ] ]
    /\ folder_id = NoFolder
    /\ recursive = FALSE
    /\ exclude_keywords \in KeywordLists
    /\ search_type = "created"
    /\ start_date = Day(1)
    /\ end_date = Day(1)
    /\ pc = "post"
    /\ start_date_str = StartOfDayStr(Day(1))
    /\ end_date_str = EndOfDayStr(Day(1))
    /\ time_field = TimeField("created")
    /\ stack = << >>
    /\ folders_to_search = << >>
    /\ idx = 1
    /\ page_token = NoToken
    /\ results = << >>
    /\ all_results \in ListsOver(MergedRecords, MaxMerged)
    /\ returned = << >>
    /\ calls = << >>
    /\ failed = {}
    /\ FetchUnused
    /\ StoreUnused
    /\ QueryUnused

OrderNext == PostProcess

SpecOrder == OrderInit /\ [][OrderNext]_vars

(* ---------------------- the order of the output ----------------------- *)
\* the place of the first record with this id in the merged results
FirstSeen(id) ==
    CHOOSE k \in 1..Len(all_results) :
        /\ all_results[k].id = id
        /\ \A j \in 1..(k - 1) : all_results[j].id # id

\* C21: the returned list is a subsequence of the merged results in which every
\* id stands at the place of its first occurrence: each returned record is the
\* first record of its id in the merged results, and the returned records follow
\* one another in the order of those first occurrences, with exclude keywords or
\* without.
C21_FirstSeenOrderIsKept ==
    (Returned /\ ~RootLookupFailed) =>
        /\ Ids(returned) \subseteq Ids(all_results)
        /\ \A k \in 1..Len(returned) :
              returned[k] = all_results[FirstSeen(returned[k].id)]
        /\ \A j, k \in 1..Len(returned) :
              j < k => FirstSeen(returned[j].id) < FirstSeen(returned[k].id)
\* two records are returned and exclude keywords dropped a third; in the merged
\* results the record returned first occurs again after the record returned second
C21_Witness ==
    /\ Returned
    /\ exclude_keywords # << >>
    /\ Len(returned) = 2
    /\ Ids(returned) # Ids(all_results)
    /\ \E i, j, k \in 1..Len(all_results) :
          /\ i < j /\ j < k
          /\ all_results[i].id = returned[1].id
          /\ all_results[j].id = returned[2].id
          /\ all_results[k].id = returned[1].id

(* ============= the loops of one call, followed to their end =========== *)
\* get_files_in_date_range on a folder of a nested tree that holds files
TerminateInit ==
    /\ parentOf \in { p \in [ 1..NumNested -> 0..NumNested ] :
                        \A i \in 1..NumNested : p[i] < i }
    /\ \E ps \in [ 1..NumFiles -> 0..1 ] :
         files = [ i \in 1..NumFiles |->
                     [ name |-> NameOf(i), mimeType |-> DocMime,
                       parents |-> << FolderId(ps[i]) >>,
                       createdTime |-> Day(1), modifiedTime |-> Day(1) ] ]
    /\ folder_id \in { FolderId(0), FolderId(1) }
    /\ recursive = TRUE
    /\ exclude_keywords = << >>
    /\ search_type = "created"
    /\ start_date = Day(1)
    /\ end_date = Day(1)
    /\ pc = "traverse"
    /\ start_date_str = StartOfDayStr(Day(1))
    /\ end_date_str = EndOfDayStr(Day(1))
    /\ time_field = TimeField("created")
    /\ stack = << NewFrame(folder_id) >>
    /\ folders_to_search = << >>
    /\ idx = 1
    /\ page_token = NoToken
    /\ results = << >>
    /\ all_results = << >>
    /\ returned = << >>
    /\ calls = << >>
    /\ failed = {}
    /\ FetchUnused
    /\ StoreUnused
    /\ QueryUnused

TerminateNext ==
    \/ TraverseList
    \/ TraverseDescend
    \/ TraverseReturn
    \/ SearchPage
    \/ PostProcess

\* the call is one sequential program: a step that can be taken is taken
SpecTerminate == TerminateInit /\ [][TerminateNext]_vars /\ WF_vars(TerminateNext)

\* C26: get_all_subfolders ends on every tree, whatever listing fails and however
\* many pages a listing has, and so does every pagination loop of execute_search:
\* a traversal that has begun reaches its return, and the searches that follow
\* it reach the end of the call.
C26_TraversalAndSearchTerminate ==
    /\ (pc = "traverse") ~> (pc = "search")
    /\ (pc = "search") ~> (pc = "done")
\* a call has ended after a listing of several pages, a listing two levels down,
\* a failed listing and a search of several pages
C26_Witness ==
    /\ pc = "done"
    /\ failed # {}
    /\ \E m \in 1..Len(calls) :
          calls[m].op = "list_folders" /\ calls[m].token # NoToken
    /\ \E m \in 1..Len(calls) :
          /\ calls[m].op = "list_folders"
          /\ calls[m].arg \in Folders
          /\ calls[m].arg # folder_id
          /\ parentOf[calls[m].arg[2]] # folder_id[2]
    /\ \E m \in 1..Len(calls) :
          calls[m].op = "search" /\ calls[m].token # NoToken

(* ================== the query built for one search ==================== *)
\* longest list of type tags or of filename keywords in a request
MaxTags == 2
\* a part of the query string
Clause(kind, of, value) == [ clause |-> kind, of |-> of, value |-> value ]
\* str.lower() on the type tags the model uses
LowerTag(t) ==
    CASE t = "PDF" -> "pdf"
      [] t = "GDoc" -> "gdoc"
      [] t = "XYZ" -> "xyz"
      [] OTHER -> t
\* mime_type_map, lines 143-203: the entries for the tags the model uses
mime_type_map ==
    [ t \in { "pdf", "gdoc", "image" } |->
        CASE t = "pdf" -> Clause("mimeType=", "mimeType", PdfMime)
          [] t = "gdoc" -> Clause("mimeType=", "mimeType", DocMime)
          [] t = "image" -> Clause("mimeType contains", "mimeType", "image/") ]
\* lines 206-212 with the else branch left out: a tag the table lacks adds nothing
FileTypeClausesKnownOnly(tag) ==
    IF LowerTag(tag) \in DOMAIN mime_type_map
    THEN << mime_type_map[LowerTag(tag)] >> ELSE << >>
\* lines 206-212: the table entry of the lowered tag, or name contains '.<tag>'
FileTypeClauses(tag) ==
    IF LowerTag(tag) \in DOMAIN mime_type_map
    THEN << mime_type_map[LowerTag(tag)] >>
    ELSE << Clause("name contains", "name", << ".", LowerTag(tag) >>) >>
\* build_file_type_query, lines 205-214: the clauses that ' or ' joins; None
\* (no clause) for an empty list
build_file_type_query(types) ==
    Concat([ k \in 1..Len(types) |-> FileTypeClauses(types[k]) ])
\* lines 329-332 and 362-365
TypeParts(types) ==
    IF types # << >> /\ build_file_type_query(types) # << >>
    THEN << Clause("or", "type", build_file_type_query(types)) >>
    ELSE << >>
\* lines 335-339 and 368-372
NameParts(keywords) ==
    IF keywords # << >>
    THEN << Clause("or", "name",
                   [ k \in 1..Len(keywords) |->
                       Clause("name contains", "name", << keywords[k] >>) ]) >>
    ELSE << >>
\* lines 321-341 for a folder, lines 355-374 for the whole store
QueryParts(scope, field, lo, hi, types, keywords) ==
    << Clause("time>=", field, lo), Clause("time<=", field, hi),
       Clause("trashed=", "trashed", FALSE) >>
      \o (IF scope # NoFolder THEN << Clause("in parents", "parents", scope) >> ELSE << >>)
      \o TypeParts(types)
      \o NameParts(keywords)

\* lines 267-341: the window, the time field and the query of the first scope
BuildQuery ==
    /\ pc = "start"
    /\ WindowSet
    /\ query' = QueryParts(folder_id, time_field', start_date_str', end_date_str',
                           file_types, filename_keywords)
    /\ pc' = "built"
    /\ UNCHANGED << parentOf, files, folder_id, recursive, exclude_keywords,
                    search_type, start_date, end_date, stack, folders_to_search,
                    idx, page_token, results, all_results, returned, calls, failed >>
    /\ UNCHANGED << fvars, svars, debug, file_types, filename_keywords, printed >>

TypeTags == { "pdf", "GDoc", "image", "XYZ" }
NameKeywords == { "gemini", "memo" }

QueryInit ==
    /\ parentOf = [ i \in 1..NumSub |-> 0 ]
    /\ files = << >>
    /\ folder_id \in { NoFolder, RootFolder }
    /\ recursive = FALSE
    /\ exclude_keywords \in KeywordLists
    /\ search_type \in { "created", "modified" }
    /\ start_date = Day(1)
    /\ end_date \in { Day(d) : d \in 1..MaxDay }
    /\ pc = "start"
    /\ start_date_str = Day(0)
    /\ end_date_str = Day(0)
    /\ time_field = Unset
    /\ stack = << >>
    /\ folders_to_search = << >>
    /\ idx = 1
    /\ page_token = NoToken
    /\ results = << >>
    /\ all_results = << >>
    /\ returned = << >>
    /\ calls = << >>
    /\ failed = {}
    /\ FetchUnused
    /\ StoreUnused
    /\ debug = FALSE
    /\ file_types \in ListsOver(TypeTags, MaxTags)
    /\ filename_keywords \in ListsOver(NameKeywords, MaxTags)
    /\ printed = << >>
    /\ query = << >>

QueryNext == BuildQuery

SpecQuery == QueryInit /\ [][QueryNext]_vars

(* ------------------------ properties of the query --------------------- *)
QueryBuilt == pc = "built"
Groups(of) == { k \in 1..Len(query) : query[k].clause = "or" /\ query[k].of = of }
CountIf(b) == IF b THEN 1 ELSE 0
\* the filter a tag stands for: the table entry of a recognized tag, the
\* name-contains-'.tag' fallback of any other
TagFilter(tag) ==
    CASE LowerTag(tag) = "pdf" -> Clause("mimeType=", "mimeType", "application/pdf")
      [] LowerTag(tag) = "gdoc" ->
             Clause("mimeType=", "mimeType", "application/vnd.google-apps.document")
      [] LowerTag(tag) = "image" -> Clause("mimeType contains", "mimeType", "image/")
      [] OTHER -> Clause("name contains", "name", << ".", LowerTag(tag) >>)

\* C20: the query is the conjunction of exactly: time field >= start, time field
\* <= end, not trashed, the folder in parents when a folder is given, one OR group
\* of the type filters exactly when there are type tags, and one OR group of
\* name-contains clauses exactly when there are filename keywords; no part comes
\* from the exclude keywords.
C20_QueryIsExactlyTheseParts ==
    QueryBuilt =>
        /\ Len(query) = 3 + CountIf(folder_id # NoFolder) + CountIf(file_types # << >>)
                          + CountIf(filename_keywords # << >>)
        /\ query[1] = Clause("time>=", TimeField(search_type), StartOfDayStr(start_date))
        /\ query[2] = Clause("time<=", TimeField(search_type), EndOfDayStr(end_date))
        /\ query[3] = Clause("trashed=", "trashed", FALSE)
        /\ folder_id # NoFolder => query[4] = Clause("in parents", "parents", folder_id)
        /\ Cardinality(Groups("type")) = CountIf(file_types # << >>)
        /\ \A g \in Groups("type") :
              /\ Len(query[g].value) = Len(file_types)
              /\ \A k \in 1..Len(file_types) : query[g].value[k] = TagFilter(file_types[k])
        /\ Cardinality(Groups("name")) = CountIf(filename_keywords # << >>)
        /\ \A g \in Groups("name") :
              /\ Len(query[g].value) = Len(filename_keywords)
              /\ \A k \in 1..Len(filename_keywords) :
                    query[g].value[k] =
                        Clause("name contains", "name", << filename_keywords[k] >>)
        /\ \A g \in Groups("type"), h \in Groups("name") : g < h
\* a query for a folder with a recognized tag in upper case, an unrecognized tag,
\* a filename keyword and exclude keywords
C20_Witness ==
    /\ QueryBuilt
    /\ folder_id # NoFolder
    /\ exclude_keywords # << >>
    /\ file_types = << "GDoc", "XYZ" >>
    /\ filename_keywords # << >>
    /\ Len(query) = 6

====
